---- MODULE Spec2Model ----
(***************************************************************************)
(* Recipe chatbot: the chat service's trace persistence, the annotation    *)
(* tool and the labeling tool, as state machines over the traces directory *)
(* and the label file.                                                     *)
(*                                                                         *)
(* Text is a sequence of tokens.  A JSON object is one token (its keys are *)
(* never split), the structural characters "[", "]", "," and the           *)
(* whitespace characters are tokens of their own, and "x" is any text that *)
(* is no JSON token.  json_dumps writes tokens, json_loads parses them.    *)
(* A message content is a sequence of characters.  A timestamp string      *)
(* (strftime "%Y%m%d_%H%M%S_%f", fixed width) is the clock value it        *)
(* formats; the file "trace_<ts>.json" is named by that value.             *)
(***************************************************************************)
EXTENDS Integers, Sequences, FiniteSets, TLC

VARIABLES
    traces,      \* annotation/traces: file name -> [text, mtime]
    now,         \* the wall clock (datetime.now, st_mtime)
    labels,      \* labeler/data/labels.jsonl: [exists, text]
    saved,       \* the record of the latest successful save of every filename
    resp,        \* the outcome of the last handled operation
    trace_path,  \* chat_endpoint's trace_path in the last request that saved a trace
    new_entry,   \* chat_endpoint's new_entry in the last request that saved a trace
    log,         \* the new_entry of every request that saved a trace, in order
    workers      \* concurrent chat_endpoint calls: worker -> its position and locals

vars == <<traces, now, labels, saved, resp, trace_path, new_entry, log, workers>>

\* ------------------------------------------------------------------ bounds

MaxTime == 3
MaxChats == 3
MaxToolTime == 1
MaxToolChats == 1
MaxLabelTime == 1
MaxTurns == 4
MaxRaceTime == 1
MaxAgentTurns == 2
MaxIdChats == 2
MaxIdTime == 1

\* ------------------------------------------------------------- JSON text

LB == [k |-> "["]
RB == [k |-> "]"]
COMMA == [k |-> ","]
NL == [k |-> "\n"]
SP == [k |-> " "]
JUNK == [k |-> "x"]
NUM == [k |-> "num"]

ObjTok(d) == [k |-> "obj", d |-> d]

\* Python values: a dict, a list of values, a number.
PyDict(d) == [ty |-> "dict", d |-> d]
PyList(items) == [ty |-> "list", items |-> items]
PyNum == [ty |-> "num"]

IsSpace(tok) == tok.k \in {"\n", " "}

RECURSIVE LStrip(_)
LStrip(s) == IF s # <<>> /\ IsSpace(Head(s)) THEN LStrip(Tail(s)) ELSE s

RECURSIVE RStrip(_)
RStrip(s) ==
    IF s # <<>> /\ IsSpace(s[Len(s)]) THEN RStrip(SubSeq(s, 1, Len(s) - 1)) ELSE s

\* str.strip()
Strip(s) == RStrip(LStrip(s))

RECURSIVE NoSpace(_)
NoSpace(s) ==
    IF s = <<>> THEN <<>>
    ELSE IF IsSpace(Head(s)) THEN NoSpace(Tail(s))
    ELSE <<Head(s)>> \o NoSpace(Tail(s))

IsValueTok(tok) == tok.k \in {"obj", "num"}

TokValue(tok) == IF tok.k = "obj" THEN PyDict(tok.d) ELSE PyNum

ValueTok(v) == IF v.ty = "dict" THEN ObjTok(v.d) ELSE NUM

RECURSIVE JoinItems(_)
JoinItems(items) ==
    IF items = <<>> THEN <<>>
    ELSE IF Len(items) = 1 THEN <<ValueTok(items[1])>>
    ELSE <<ValueTok(items[1]), COMMA>> \o JoinItems(Tail(items))

\* json.dumps of a dict, a number or a list of those.
json_dumps(v) ==
    IF v.ty = "list" THEN <<LB>> \o JoinItems(v.items) \o <<RB>>
    ELSE <<ValueTok(v)>>

\* The tokens between "[" and "]" are values separated by commas.
IsItemList(t) ==
    \/ t = <<>>
    \/ /\ Len(t) % 2 = 1
       /\ \A i \in 1..Len(t) :
            IF i % 2 = 1 THEN IsValueTok(t[i]) ELSE t[i] = COMMA

ItemsOf(t) == [i \in 1..((Len(t) + 1) \div 2) |-> TokValue(t[2 * i - 1])]

\* json.loads: [ok |-> FALSE] stands for json.JSONDecodeError.  Whitespace
\* between tokens is insignificant; anything after the first value is
\* "extra data".
json_loads(text) ==
    LET t == NoSpace(text) IN
    IF Len(t) = 1 /\ IsValueTok(t[1]) THEN [ok |-> TRUE, val |-> TokValue(t[1])]
    ELSE IF /\ Len(t) >= 2
            /\ t[1] = LB
            /\ t[Len(t)] = RB
            /\ IsItemList(SubSeq(t, 2, Len(t) - 1))
         THEN [ok |-> TRUE, val |-> PyList(ItemsOf(SubSeq(t, 2, Len(t) - 1)))]
    ELSE [ok |-> FALSE]

\* dict.get(key, default)
Get(d, key, default) == IF key \in DOMAIN d THEN d[key] ELSE default

\* d[key] = value
SetKey(d, key, value) ==
    [x \in (DOMAIN d) \cup {key} |-> IF x = key THEN value ELSE d[x]]

\* --------------------------------------------------------- conversations

Msg(role, content) == [role |-> role, content |-> content]

SYSTEM_PROMPT == <<"P">>

IsBlank(c) == c \in {" ", "\n"}

RECURSIVE LStripChars(_)
LStripChars(s) ==
    IF s # <<>> /\ IsBlank(Head(s)) THEN LStripChars(Tail(s)) ELSE s

RECURSIVE RStripChars(_)
RStripChars(s) ==
    IF s # <<>> /\ IsBlank(s[Len(s)])
    THEN RStripChars(SubSeq(s, 1, Len(s) - 1))
    ELSE s

\* str.strip() of a message content
StripChars(s) == RStripChars(LStripChars(s))

\* A wrapper that puts the system prompt in front of every conversation.
current_messages_always_prepends(messages) ==
    <<Msg("system", SYSTEM_PROMPT)>> \o messages

\* get_agent_response: the conversation sent to the model.
current_messages(messages) ==
    IF messages = <<>> \/ messages[1].role # "system"
    THEN <<Msg("system", SYSTEM_PROMPT)>> \o messages
    ELSE messages

\* get_agent_response, given the content of the completion's first choice.
get_agent_response(messages, completion) ==
    current_messages(messages) \o <<Msg("assistant", StripChars(completion))>>

\* ------------------------------------------------------- the chat service

\* existing_json_files sorted by st_mtime, newest first: the candidates for
\* element 0 (files of equal st_mtime come in the directory's order).
MostRecent(dir) ==
    {f \in DOMAIN dir : \A g \in DOMAIN dir : dir[g].mtime <= dir[f].mtime}

\* A file selection that creates a new timestamped file for every request.
TracePathsAlwaysNew(dir, ts) == {ts}

\* trace_path: the newest existing file, or a new file named by ts.
TracePaths(dir, ts) == IF DOMAIN dir # {} THEN MostRecent(dir) ELSE {ts}

NewEntry(ts, messages, updated) ==
    [ts |-> ts,
     request |-> [messages |-> messages],
     response |-> [messages |-> updated]]

\* The try block up to data.append: the records read from the file, or
\* decoded = FALSE for json.JSONDecodeError.
ReadExisting(text) ==
    LET existing_content == Strip(text) IN
    IF existing_content = <<>>
    THEN [decoded |-> TRUE, data |-> <<>>, existing_content |-> existing_content]
    ELSE LET parsed == json_loads(existing_content) IN
         IF ~parsed.ok
         THEN [decoded |-> FALSE, data |-> <<>>,
               existing_content |-> existing_content]
         ELSE IF parsed.val.ty = "list"
         THEN [decoded |-> TRUE, data |-> parsed.val.items,
               existing_content |-> existing_content]
         ELSE [decoded |-> TRUE, data |-> <<parsed.val>>,
               existing_content |-> existing_content]

\* A rewrite that forgets the records read from the file.
RewriteTextDropsData(data, entry) == json_dumps(PyList(<<PyDict(entry)>>))

\* data.append(new_entry); write_text(json.dumps(data))
RewriteText(data, entry) == json_dumps(PyList(Append(data, PyDict(entry))))

\* str.endswith("\n")
EndsWithNewline(s) == s # <<>> /\ s[Len(s)] = NL

\* A fallback that writes the record right behind the existing text.
FallbackLinesNoNewline(existing_content, entry) ==
    json_dumps(PyDict(entry)) \o <<NL>>

\* What the except branch writes in append mode.
FallbackLines(existing_content, entry) ==
    (IF existing_content # <<>> /\ ~EndsWithNewline(existing_content)
     THEN <<NL>> ELSE <<>>)
    \o json_dumps(PyDict(entry)) \o <<NL>>

\* An append that starts the file over when its content is no JSON.
AppendTraceStartsOver(text, entry) ==
    LET r == ReadExisting(text) IN
    IF r.decoded THEN RewriteText(r.data, entry)
    ELSE json_dumps(PyList(<<PyDict(entry)>>))

\* The file's text after the append to an existing file.
AppendTrace(text, entry) ==
    LET r == ReadExisting(text) IN
    IF r.decoded THEN RewriteText(r.data, entry)
    ELSE text \o FallbackLines(r.existing_content, entry)

\* The file's text when trace_path does not exist.
CreateText(entry) == json_dumps(PyList(<<PyDict(entry)>>))

WriteFile(dir, path, text, t) ==
    [f \in (DOMAIN dir) \cup {path} |->
        IF f = path THEN [text |-> text, mtime |-> t] ELSE dir[f]]

NoEntry == [none |-> TRUE]

Workers == {1, 2}

\* POST /chat, the model call succeeds with `completion`.
ChatOk(messages, completion) ==
    /\ LET updated == get_agent_response(messages, completion)
           entry == NewEntry(now, messages, updated)
       IN  \E path \in TracePaths(traces, now) :
             /\ traces' = WriteFile(traces, path,
                                    IF path \in DOMAIN traces
                                    THEN AppendTrace(traces[path].text, entry)
                                    ELSE CreateText(entry),
                                    now)
             /\ trace_path' = path
             /\ new_entry' = entry
             /\ log' = Append(log, entry)
             /\ resp' = [op |-> "chat", status |-> 200, messages |-> updated]
    /\ UNCHANGED <<now, labels, saved, workers>>

\* A handler that saves the request's trace before it calls the model.
ChatFailAfterSave(messages) ==
    /\ resp' = [op |-> "chat", status |-> 500, request |-> messages]
    /\ \E path \in TracePaths(traces, now) :
         traces' = WriteFile(traces, path,
                             CreateText(NewEntry(now, messages, messages)), now)
    /\ UNCHANGED <<now, labels, saved, trace_path, new_entry, log, workers>>

\* POST /chat, get_agent_response raises: HTTP 500 before any trace code.
ChatFail(messages) ==
    /\ resp' = [op |-> "chat", status |-> 500, request |-> messages]
    /\ UNCHANGED <<traces, now, labels, saved, trace_path, new_entry, log, workers>>

\* chat_endpoint running concurrently: the model call, the timestamp and
\* the choice of trace_path (glob and stat).
RaceBegin(w, messages, completion) ==
    /\ workers[w].pc = "idle"
    /\ \E path \in TracePaths(traces, now) :
         workers' = [workers EXCEPT ![w] =
             [pc |-> "selected",
              path |-> path,
              entry |-> NewEntry(now, messages,
                                 get_agent_response(messages, completion))]]
    /\ UNCHANGED <<traces, now, labels, saved, resp, trace_path, new_entry, log>>

\* trace_path.exists() and the try block up to data.append.  seen is the
\* number of trace writes that happened before this read.
RaceRead(w) ==
    /\ workers[w].pc = "selected"
    /\ workers' = [workers EXCEPT ![w] =
         [pc |-> "read",
          path |-> @.path,
          entry |-> @.entry,
          exists |-> @.path \in DOMAIN traces,
          r |-> IF @.path \in DOMAIN traces
                THEN ReadExisting(traces[@.path].text)
                ELSE ReadExisting(<<>>),
          seen |-> Len(log)]]
    /\ UNCHANGED <<traces, now, labels, saved, resp, trace_path, new_entry, log>>

\* A write that reads the file again under a lock.
RaceWrittenTextLocked(dir, wk) ==
    IF wk.path \in DOMAIN dir THEN AppendTrace(dir[wk.path].text, wk.entry)
    ELSE CreateText(wk.entry)

\* The text a worker's write leaves in the file: a rewrite from the data it
\* read, or the fallback's append to whatever the file holds now.
RaceWrittenText(dir, wk) ==
    IF ~wk.exists THEN CreateText(wk.entry)
    ELSE IF wk.r.decoded THEN RewriteText(wk.r.data, wk.entry)
    ELSE (IF wk.path \in DOMAIN dir THEN dir[wk.path].text ELSE <<>>)
         \o FallbackLines(wk.r.existing_content, wk.entry)

\* write_text / the append, and the reply.
RaceWrite(w) ==
    /\ workers[w].pc = "read"
    /\ traces' = WriteFile(traces, workers[w].path,
                           RaceWrittenText(traces, workers[w]), now)
    /\ workers' = [workers EXCEPT ![w].pc = "done"]
    /\ trace_path' = workers[w].path
    /\ new_entry' = workers[w].entry
    /\ log' = Append(log, workers[w].entry)
    /\ resp' = [op |-> "chat", status |-> 200,
                messages |-> workers[w].entry.response.messages]
    /\ UNCHANGED <<now, labels, saved>>

\* Time passes.
Tick ==
    /\ now' = now + 1
    /\ UNCHANGED <<traces, labels, saved, resp, trace_path, new_entry, log, workers>>

\* -------------------------------------------------- the annotation tool

None == "<None>"

\* A save that writes back the annotated last record alone.
AnnotatedTextLastOnly(text, notes, axial_coding_code) ==
    LET raw == json_loads(text) IN
    IF ~raw.ok THEN [ok |-> FALSE]
    ELSE IF raw.val.ty = "list" /\ raw.val.items # <<>>
    THEN LET last == raw.val.items[Len(raw.val.items)] IN
         IF last.ty # "dict" THEN [ok |-> FALSE]
         ELSE [ok |-> TRUE,
               text |-> json_dumps(PyDict(SetKey(last.d, "open_coding", notes)))]
    ELSE [ok |-> TRUE,
          text |-> json_dumps(PyDict(SetKey(
              IF raw.val.ty = "dict" THEN raw.val.d ELSE <<>>,
              "open_coding", notes)))]

\* A save that sets the annotation on every record of the array.
AnnotatedTextEveryRecord(text, notes, axial_coding_code) ==
    LET raw == json_loads(text) IN
    IF ~raw.ok THEN [ok |-> FALSE]
    ELSE IF raw.val.ty = "list" /\ raw.val.items # <<>>
    THEN IF \E i \in 1..Len(raw.val.items) : raw.val.items[i].ty # "dict"
         THEN [ok |-> FALSE]
         ELSE [ok |-> TRUE,
               text |-> json_dumps(PyList(
                   [i \in 1..Len(raw.val.items) |->
                       PyDict(SetKey(raw.val.items[i].d, "open_coding", notes))]))]
    ELSE [ok |-> TRUE,
          text |-> json_dumps(PyDict(SetKey(
              IF raw.val.ty = "dict" THEN raw.val.d ELSE <<>>,
              "open_coding", notes)))]

\* The text save_annotation writes back, or ok = FALSE when it raises
\* before opening the file for writing.
AnnotatedText(text, notes, axial_coding_code) ==
    LET raw == json_loads(text) IN
    IF ~raw.ok THEN [ok |-> FALSE]
    ELSE IF raw.val.ty = "list" /\ raw.val.items # <<>>
    THEN LET items == raw.val.items
             last == items[Len(items)]
         IN  IF last.ty # "dict" THEN [ok |-> FALSE]
             ELSE LET d1 == SetKey(last.d, "open_coding", notes)
                      d2 == IF axial_coding_code # None
                            THEN SetKey(d1, "axial_coding_code", axial_coding_code)
                            ELSE d1
                  IN  [ok |-> TRUE,
                       text |-> json_dumps(
                           PyList([items EXCEPT ![Len(items)] = PyDict(d2)]))]
    ELSE LET data == IF raw.val.ty = "dict" THEN raw.val.d ELSE <<>>
             d1 == SetKey(data, "open_coding", notes)
             d2 == IF axial_coding_code # None
                   THEN SetKey(d1, "axial_coding_code", axial_coding_code)
                   ELSE d1
         IN  [ok |-> TRUE, text |-> json_dumps(PyDict(d2))]

\* POST /save_annotation
SaveAnnotation(fname, notes, axial_coding_code) ==
    /\ fname \in DOMAIN traces
    /\ LET w == AnnotatedText(traces[fname].text, notes, axial_coding_code) IN
       IF w.ok
       THEN /\ traces' = WriteFile(traces, fname, w.text, now)
            /\ resp' = [op |-> "save_annotation", status |-> 303, fname |-> fname]
       ELSE /\ traces' = traces
            /\ resp' = [op |-> "save_annotation", status |-> 500, fname |-> fname]
    /\ UNCHANGED <<now, labels, saved, trace_path, new_entry, log, workers>>

RECURSIVE SortSet(_)
\* sorted(...) of a set of file names
SortSet(S) ==
    IF S = {} THEN <<>>
    ELSE LET m == CHOOSE x \in S : \A y \in S : x <= y
         IN  <<m>> \o SortSet(S \ {m})

\* bool(s) of a string
Truthy(s) == s # "" /\ s # None

\* One file's list item in list_traces, or ok = FALSE when building it raises
\* (json.load fails, or data["request"]["messages"][0]["content"] does).
TraceItem(fname, text) ==
    LET raw == json_loads(text) IN
    IF ~raw.ok THEN [ok |-> FALSE]
    ELSE LET data == IF raw.val.ty = "list" /\ raw.val.items # <<>>
                     THEN raw.val.items[Len(raw.val.items)]
                     ELSE raw.val
         IN  IF \/ data.ty # "dict"
                \/ "request" \notin DOMAIN data.d
                \/ data.d.request.messages = <<>>
             THEN [ok |-> FALSE]
             ELSE [ok |-> TRUE,
                   fname |-> fname,
                   msg |-> data.d.request.messages[1].content,
                   has_open_coding |-> Truthy(Get(data.d, "open_coding", "")),
                   has_axial_coding |->
                       Truthy(Get(data.d, "axial_coding_code", ""))]

\* list_traces: the items of all files in name order, or ok = FALSE when one
\* file raises.
list_traces(dir) ==
    LET files == SortSet(DOMAIN dir) IN
    IF \E f \in DOMAIN dir : ~TraceItem(f, dir[f].text).ok THEN [ok |-> FALSE]
    ELSE [ok |-> TRUE,
          items |-> [i \in 1..Len(files) |->
                        TraceItem(files[i], dir[files[i]].text)]]

\* GET / of the annotation tool
ListTraces ==
    /\ LET result == list_traces(traces) IN
       resp' = [op |-> "list_traces",
                status |-> IF result.ok THEN 200 ELSE 500,
                result |-> result]
    /\ UNCHANGED <<traces, now, labels, saved, trace_path, new_entry, log, workers>>

\* ----------------------------------------------------- the labeling tool

\* A trace identifier: the plain file name, or "fname#ts" with frag = <<ts>>
\* ("fname#" with frag = <<>>).
PlainId(fname) == [fname |-> fname]
EntryId(fname, frag) == [fname |-> fname, frag |-> frag]

\* entry.get('ts') or '' as the text after '#'
TsFrag(d) == IF "ts" \in DOMAIN d THEN <<d.ts>> ELSE <<>>

RECURSIVE EntryIds(_, _)
\* The identifiers of an array's entries that hold a response.
EntryIds(fname, items) ==
    IF items = <<>> THEN <<>>
    ELSE (IF "response" \in DOMAIN Head(items).d
          THEN <<EntryId(fname, TsFrag(Head(items).d))>>
          ELSE <<>>)
         \o EntryIds(fname, Tail(items))

\* One file's identifiers in list_trace_files: none for a file json.load
\* rejects; ok = FALSE when entry.get raises on an entry that is no dict.
FileIds(fname, text) ==
    LET raw == json_loads(text) IN
    IF ~raw.ok THEN [ok |-> TRUE, ids |-> <<>>]
    ELSE IF raw.val.ty = "list"
    THEN IF \E i \in 1..Len(raw.val.items) : raw.val.items[i].ty # "dict"
         THEN [ok |-> FALSE, ids |-> <<>>]
         ELSE [ok |-> TRUE, ids |-> EntryIds(fname, raw.val.items)]
    ELSE IF raw.val.ty = "dict" THEN [ok |-> TRUE, ids |-> <<PlainId(fname)>>]
    ELSE [ok |-> TRUE, ids |-> <<>>]

RECURSIVE ConcatIds(_, _)
ConcatIds(dir, files) ==
    IF files = <<>> THEN <<>>
    ELSE FileIds(Head(files), dir[Head(files)].text).ids
         \o ConcatIds(dir, Tail(files))

\* list_trace_files
list_trace_files(dir) ==
    IF \E f \in DOMAIN dir : ~FileIds(f, dir[f].text).ok THEN [ok |-> FALSE]
    ELSE [ok |-> TRUE, ids |-> ConcatIds(dir, SortSet(DOMAIN dir))]

\* GET / of the labeling tool
ListTraceFiles ==
    /\ LET result == list_trace_files(traces) IN
       resp' = [op |-> "list_trace_files",
                status |-> IF result.ok THEN 200 ELSE 500,
                result |-> result]
    /\ UNCHANGED <<traces, now, labels, saved, trace_path, new_entry, log, workers>>

\* The index of the last message with `role` among the first n, or 0.
LastWithRole(messages, role, n) ==
    LET S == {i \in 1..n : messages[i].role = role} IN
    IF S = {} THEN 0 ELSE CHOOSE i \in S : \A j \in S : j <= i

ContentAt(messages, i) == IF i = 0 THEN <<>> ELSE messages[i].content

\* load_trace from "Extract initial query and last assistant response" on.
ExtractTurns(data) ==
    LET request_messages == Get(Get(data, "request", <<>>), "messages", <<>>)
        response_messages == Get(Get(data, "response", <<>>), "messages", <<>>)
        last_assistant_idx ==
            LastWithRole(response_messages, "assistant", Len(response_messages))
        assistant_output == ContentAt(response_messages, last_assistant_idx)
        q1 == IF last_assistant_idx # 0
              THEN ContentAt(response_messages,
                       LastWithRole(response_messages, "user",
                                    last_assistant_idx - 1))
              ELSE <<>>
        q2 == IF q1 = <<>>
              THEN ContentAt(response_messages,
                       LastWithRole(response_messages, "user",
                                    Len(response_messages)))
              ELSE q1
        q3 == IF q2 = <<>>
              THEN ContentAt(request_messages,
                       LastWithRole(request_messages, "user",
                                    Len(request_messages)))
              ELSE q2
    IN  [initial_query |-> q3, assistant_output |-> assistant_output]

\* The first entry of the array whose str(ts) is entry_ts, or 0.
SelectedIdx(items, entry_ts) ==
    LET S == {i \in 1..Len(items) :
                 items[i].ty = "dict" /\ TsFrag(items[i].d) = entry_ts}
    IN  IF S = {} THEN 0 ELSE CHOOSE i \in S : \A j \in S : i <= j

\* load_trace: the value `data` is bound to.
SelectData(raw, file_id) ==
    IF raw.ty = "list" /\ raw.items # <<>>
    THEN LET last == raw.items[Len(raw.items)]
             i == IF "frag" \in DOMAIN file_id /\ file_id.frag # <<>>
                  THEN SelectedIdx(raw.items, file_id.frag)
                  ELSE 0
         IN  IF i # 0 /\ DOMAIN raw.items[i].d # {} THEN raw.items[i] ELSE last
    ELSE raw

\* load_trace, or ok = FALSE when it raises (no such file, json.load fails,
\* data is no dict).
load_trace(dir, file_id) ==
    IF file_id.fname \notin DOMAIN dir THEN [ok |-> FALSE]
    ELSE LET raw == json_loads(dir[file_id.fname].text) IN
         IF ~raw.ok THEN [ok |-> FALSE]
         ELSE LET data == SelectData(raw.val, file_id) IN
              IF data.ty # "dict" THEN [ok |-> FALSE]
              ELSE LET turns == ExtractTurns(data.d) IN
                   [ok |-> TRUE,
                    filename |-> file_id,
                    initial_query |-> turns.initial_query,
                    assistant_output |-> turns.assistant_output]

\* GET /api/trace/<index>
GetTrace(index) ==
    /\ LET files == list_trace_files(traces) IN
       IF ~files.ok THEN resp' = [op |-> "get_trace", status |-> 500]
       ELSE IF files.ids = <<>> THEN resp' = [op |-> "get_trace", status |-> 404]
       ELSE LET clamped ==
                    IF index > Len(files.ids) - 1 THEN Len(files.ids) - 1
                    ELSE IF index < 0 THEN 0 ELSE index
                payload == load_trace(traces, files.ids[clamped + 1])
            IN  IF ~payload.ok THEN resp' = [op |-> "get_trace", status |-> 500]
                ELSE resp' = [op |-> "get_trace", status |-> 200,
                              index |-> clamped, total |-> Len(files.ids),
                              payload |-> payload]
    /\ UNCHANGED <<traces, now, labels, saved, trace_path, new_entry, log, workers>>

RECURSIVE SplitLines(_, _)
\* The lines of a text: `line` is the part of the current line already read.
SplitLines(s, line) ==
    IF s = <<>> THEN (IF line = <<>> THEN <<>> ELSE <<line>>)
    ELSE IF Head(s) = NL THEN <<line>> \o SplitLines(Tail(s), <<>>)
    ELSE SplitLines(Tail(s), Append(line, Head(s)))

RECURSIVE ParseLines(_)
\* json.loads of every line, the lines that raise skipped.
ParseLines(lines) ==
    IF lines = <<>> THEN <<>>
    ELSE LET row == json_loads(Head(lines)) IN
         (IF row.ok THEN <<row.val>> ELSE <<>>) \o ParseLines(Tail(lines))

\* The rows read from labels.jsonl.
ReadRows(file) == IF file.exists THEN ParseLines(SplitLines(file.text, <<>>)) ELSE <<>>

RECURSIVE WriteRows(_)
\* f.write(json.dumps(row) + '\n') for every row
WriteRows(rows) ==
    IF rows = <<>> THEN <<>>
    ELSE json_dumps(Head(rows)) \o <<NL>> \o WriteRows(Tail(rows))

HasFilename(row, filename) ==
    "filename" \in DOMAIN row.d /\ row.d.filename = filename

LabelRecord(body, t) ==
    [filename |-> body.filename,
     feedback |-> Get(body, "feedback", ""),
     verdict |-> Get(body, "verdict", None),
     index |-> body.index,
     saved_at |-> t]

\* A save that appends the record without looking for an earlier one.
UpsertAlwaysAppends(rows, record) == Append(rows, PyDict(record))

\* save_label: the rows written back.
Upsert(rows, record) ==
    LET replaced == [i \in 1..Len(rows) |->
                        IF HasFilename(rows[i], record.filename)
                        THEN PyDict(record) ELSE rows[i]]
        seen == \E i \in 1..Len(rows) : HasFilename(rows[i], record.filename)
    IN  IF seen THEN replaced ELSE Append(replaced, PyDict(record))

\* POST /api/save
SaveLabel(body) ==
    /\ IF "filename" \notin DOMAIN body
       THEN /\ resp' = [op |-> "save_label", status |-> 400]
            /\ UNCHANGED <<labels, saved>>
       ELSE LET rows == ReadRows(labels) IN
            IF \E i \in 1..Len(rows) : rows[i].ty # "dict"
            THEN /\ resp' = [op |-> "save_label", status |-> 500]
                 /\ UNCHANGED <<labels, saved>>
            ELSE LET record == LabelRecord(body, now) IN
                 /\ labels' = [exists |-> TRUE,
                               text |-> WriteRows(Upsert(rows, record))]
                 /\ saved' = [f \in (DOMAIN saved) \cup {body.filename} |->
                                 IF f = body.filename THEN record ELSE saved[f]]
                 /\ resp' = [op |-> "save_label", status |-> 200,
                             record |-> record]
    /\ UNCHANGED <<traces, now, trace_path, new_entry, log, workers>>

\* GET /api/labels
ListLabels ==
    /\ resp' = [op |-> "list_labels", status |-> 200, labels |-> ReadRows(labels)]
    /\ UNCHANGED <<traces, now, labels, saved, trace_path, new_entry, log, workers>>

fieldnames == <<"filename", "index", "verdict", "feedback", "saved_at">>

CsvRow(d) == [i \in 1..Len(fieldnames) |-> Get(d, fieldnames[i], None)]

\* GET /api/export: the CSV written to labels_export_<time>.csv and served.
\* Nothing reads the exported files again; the served file stands for them.
ExportCsv ==
    /\ LET rows == ReadRows(labels) IN
       IF \E i \in 1..Len(rows) : rows[i].ty # "dict"
       THEN resp' = [op |-> "export_csv", status |-> 500]
       ELSE resp' = [op |-> "export_csv", status |-> 200, csv_name |-> now,
                     csv |-> <<fieldnames>>
                             \o [i \in 1..Len(rows) |-> CsvRow(rows[i].d)]]
    /\ UNCHANGED <<traces, now, labels, saved, trace_path, new_entry, log, workers>>

\* ------------------------------------------------------------- behaviours

UserA == <<Msg("user", <<"A">>)>>
SystemUserB == <<Msg("system", <<"Q">>), Msg("user", <<"B">>)>>

\* A record an earlier run of the chat service stored at time t.
OldRecord(t) == NewEntry(t, UserA, get_agent_response(UserA, <<"D">>))

\* Texts a trace file holds before the first request: empty, blank, a single
\* object, arrays, text that is no JSON, an interrupted rewrite, JSON lines.
InitTexts ==
    {<<>>, <<NL>>,
     <<ObjTok(OldRecord(-2))>>,
     <<LB, RB>>,
     CreateText(OldRecord(-2)),
     RewriteText(<<PyDict(OldRecord(-2))>>, OldRecord(-1)),
     <<JUNK>>, <<JUNK, NL>>,
     <<LB, ObjTok(OldRecord(-2)), COMMA>>,
     <<ObjTok(OldRecord(-2)), NL, ObjTok(OldRecord(-1)), NL>>,
     <<NUM>>, <<LB, NUM, RB>>}

PairTexts == {CreateText(OldRecord(-2)), <<JUNK>>}

OneFile(name, text, t) == [f \in {name} |-> [text |-> text, mtime |-> t]]

InitDirs ==
    {<<>>}
    \cup {OneFile(-1, text, -1) : text \in InitTexts}
    \cup {[f \in {-2, -1} |-> IF f = -2 THEN [text |-> t1, mtime |-> m1]
                               ELSE [text |-> t2, mtime |-> m2]] :
             <<t1, t2, m1, m2>> \in
                 PairTexts \X PairTexts \X {-2, -1} \X {-1}}

Requests == {UserA, SystemUserB}
Completions == {<<" ", "D", "\n">>}

InitWith(dirs, label_files) ==
    /\ traces \in dirs
    /\ now = 0
    /\ labels \in label_files
    /\ saved = <<>>
    /\ resp = [op |-> "none", status |-> 0]
    /\ trace_path = 0
    /\ new_entry = NoEntry
    /\ log = <<>>
    /\ workers = [w \in Workers |-> [pc |-> "idle"]]

NoLabels == [exists |-> FALSE, text |-> <<>>]

InitFrom(dirs) == InitWith(dirs, {NoLabels})

\* The chat service alone, its requests handled one at a time.
InitChat == InitFrom(InitDirs)

NextChat ==
    \/ /\ Len(log) < MaxChats
       /\ \E messages \in Requests, completion \in Completions :
            ChatOk(messages, completion)
    \/ \E messages \in Requests : ChatFail(messages)
    \/ now < MaxTime /\ Tick

SpecChat == InitChat /\ [][NextChat]_vars

\* The chat service and both tools on one traces directory, every operation
\* complete before the next starts.
ToolDirs ==
    {<<>>,
     OneFile(-1, <<ObjTok(OldRecord(-2))>>, -1),
     OneFile(-1, RewriteText(<<PyDict(OldRecord(-2))>>, OldRecord(-1)), -1),
     OneFile(-1, <<LB, RB>>, -1),
     [f \in {-2, -1} |-> IF f = -2 THEN [text |-> CreateText(OldRecord(-2)), mtime |-> -2]
                         ELSE [text |-> <<JUNK>>, mtime |-> -1]]}

Init == InitFrom(ToolDirs)

SomeId == EntryId(-1, <<-2>>)

Next ==
    \/ /\ Len(log) < MaxToolChats
       /\ \E completion \in Completions : ChatOk(UserA, completion)
    \/ now < MaxToolTime /\ Tick
    \/ \E fname \in DOMAIN traces, axial_coding_code \in {None, "c"} :
         SaveAnnotation(fname, "n", axial_coding_code)
    \/ ListTraces
    \/ ListTraceFiles
    \/ \E index \in {0, 5} : GetTrace(index)
    \/ SaveLabel([filename |-> SomeId, feedback |-> "good", verdict |-> "up", index |-> 0])
    \/ ExportCsv

Spec == Init /\ [][Next]_vars

\* A fresh traces directory.
InitFresh == InitFrom({<<>>})

SpecFresh == InitFresh /\ [][NextChat]_vars

\* The labeling tool's label file alone.
LabelIds == {EntryId(-1, <<-2>>), PlainId(-1)}

LabelBodies ==
    {[filename |-> f, feedback |-> fb, verdict |-> v, index |-> 0] :
        f \in LabelIds, fb \in {"good", "bad"}, v \in {"up", "down"}}
    \cup {[feedback |-> "good", verdict |-> "up", index |-> 0]}

NextLabels ==
    \/ \E body \in LabelBodies : SaveLabel(body)
    \/ ListLabels
    \/ ExportCsv
    \/ now < MaxLabelTime /\ Tick

InitLabels == InitWith({<<>>}, {NoLabels, [exists |-> TRUE, text |-> <<>>]})

SpecLabels == InitLabels /\ [][NextLabels]_vars

\* load_trace on one stored record, over every short response thread.
Contents == {<<>>, <<"A">>, <<"B">>}
Roles == {"system", "user", "assistant"}
Messages == {Msg(role, content) : role \in Roles, content \in Contents}
Threads(n) == UNION {[1..k -> Messages] : k \in 0..n}

ExtractDirs ==
    {OneFile(0, <<ObjTok([ts |-> 0,
                          request |-> [messages |-> q],
                          response |-> [messages |-> r]])>>, 0) :
        q \in {<<>>, <<Msg("user", <<"Q">>)>>}, r \in Threads(MaxTurns)}

InitExtract == InitFrom(ExtractDirs)

NextExtract == GetTrace(0)

SpecExtract == InitExtract /\ [][NextExtract]_vars

\* get_agent_response on every short conversation: one request to a fresh
\* service.
AgentCompletions == {<<"D">>, <<" ", "D", " ", "E", "\n">>, <<" ">>}

NextAgent ==
    /\ log = <<>>
    /\ \E messages \in Threads(MaxAgentTurns), completion \in AgentCompletions :
         ChatOk(messages, completion)

SpecAgent == InitFresh /\ [][NextAgent]_vars


\* Two chat requests running concurrently on a directory that holds one file.
RaceDirs == {OneFile(-1, text, -1) : text \in InitTexts}

InitRace == InitFrom(RaceDirs)

NextRace ==
    \/ \E w \in Workers, messages \in Requests, completion \in Completions :
         RaceBegin(w, messages, completion)
    \/ \E w \in Workers : RaceRead(w)
    \/ \E w \in Workers : RaceWrite(w)
    \/ now < MaxRaceTime /\ Tick

SpecRace == InitRace /\ [][NextRace]_vars

\* The labeling tool's identifiers: the chat service and the tool's two
\* read handlers on a directory that is fresh or holds one file, a single
\* object, an array of two records, or an array of two entries without ts.
NoTsEntry(content) ==
    [request |-> [messages |-> <<Msg("user", content)>>],
     response |-> [messages |-> <<Msg("user", content),
                                  Msg("assistant", <<"D">>)>>]]

IdDirs ==
    {<<>>,
     OneFile(-1, <<ObjTok(OldRecord(-2))>>, -1),
     OneFile(-1, RewriteText(<<PyDict(OldRecord(-2))>>, OldRecord(-1)), -1),
     OneFile(-1, json_dumps(PyList(<<PyDict(NoTsEntry(<<"A">>)),
                                     PyDict(NoTsEntry(<<"B">>))>>)), -1)}

InitIds == InitFrom(IdDirs)

NextIds ==
    \/ /\ Len(log) < MaxIdChats
       /\ \E messages \in Requests, completion \in Completions :
            ChatOk(messages, completion)
    \/ now < MaxIdTime /\ Tick
    \/ ListTraceFiles
    \/ \E index \in 0..(MaxIdChats + 1) : GetTrace(index)

SpecIds == InitIds /\ [][NextIds]_vars

\* ------------------------------------------------------------------ claims

IsPrefix(s, t) == Len(s) <= Len(t) /\ SubSeq(t, 1, Len(s)) = s

\* The values of a text that is a JSON array; none for any other text.
ArrayItems(text) ==
    LET v == json_loads(text) IN
    IF v.ok /\ v.val.ty = "list" THEN v.val.items ELSE <<>>

IsArrayText(text) == json_loads(text).ok /\ json_loads(text).val.ty = "list"

IsSingleObjectText(text) == Len(text) = 1 /\ text[1].k = "obj"

IsNotJsonText(text) == Strip(text) # <<>> /\ ~json_loads(text).ok

\* The records a well-formed trace file stores, in order.
StoredRecords(text) ==
    IF IsSingleObjectText(text) THEN <<PyDict(text[1].d)>> ELSE ArrayItems(text)

\* A step that is a chat request saving its trace to the existing file.
AppendStep == log' # log /\ trace_path' \in DOMAIN traces

\* C1: a chat append to an existing file that is empty, a single JSON object
\* or a JSON array of records leaves a JSON array holding exactly the
\* records stored before, in their order, followed by the new record.
C1_AppendKeepsRecords ==
    [][(/\ AppendStep
        /\ LET old == traces[trace_path'].text IN
             \/ old = <<>>
             \/ IsSingleObjectText(old)
             \/ /\ IsArrayText(old)
                /\ \A i \in 1..Len(ArrayItems(old)) : ArrayItems(old)[i].ty = "dict")
       => /\ IsArrayText(traces'[trace_path'].text)
          /\ ArrayItems(traces'[trace_path'].text)
               = StoredRecords(traces[trace_path'].text) \o <<PyDict(new_entry')>>]_vars

\* A single-object (or one-element array) file has become a two-element array.
C1_Witness ==
    /\ resp.op = "chat" /\ resp.status = 200
    /\ Len(log) = 1
    /\ trace_path = -1
    /\ -1 \in DOMAIN traces
    /\ ArrayItems(traces[-1].text) = <<PyDict(OldRecord(-2)), PyDict(new_entry)>>

\* C2: from a fresh directory, after n >= 1 successful chat requests the
\* directory holds exactly one trace file, an n-element JSON array whose i-th
\* element is the record of the i-th request.
C2_OneFileInOrder ==
    Len(log) >= 1 =>
        /\ Cardinality(DOMAIN traces) = 1
        /\ \A f \in DOMAIN traces :
             /\ IsArrayText(traces[f].text)
             /\ Len(ArrayItems(traces[f].text)) = Len(log)
             /\ \A i \in 1..Len(log) :
                  /\ ArrayItems(traces[f].text)[i].ty = "dict"
                  /\ ArrayItems(traces[f].text)[i].d.request = log[i].request
                  /\ ArrayItems(traces[f].text)[i].d.response = log[i].response
                  /\ ArrayItems(traces[f].text)[i].d.ts = log[i].ts

C2_Witness ==
    /\ Len(log) = 3
    /\ log[1].request.messages # log[2].request.messages
    /\ \E f \in DOMAIN traces : Len(ArrayItems(traces[f].text)) = 3

\* C3: a chat append to a file whose non-empty content is not valid JSON
\* returns the reply, keeps every byte of the file, and ends the file with a
\* newline, the serialized new record and a newline.
C3_FallbackAppends ==
    [][(AppendStep /\ IsNotJsonText(traces[trace_path'].text))
       => LET old == traces[trace_path'].text
              new == traces'[trace_path'].text
          IN  /\ resp'.op = "chat" /\ resp'.status = 200
              /\ resp'.messages = new_entry'.response.messages
              /\ IsPrefix(old, new)
              /\ Len(new) >= Len(old) + 3
              /\ SubSeq(new, Len(new) - 2, Len(new))
                   = <<NL, ObjTok(new_entry'), NL>>]_vars

C3_Witness ==
    /\ resp.op = "chat" /\ resp.status = 200
    /\ Len(log) = 1
    /\ trace_path \in DOMAIN traces
    /\ traces[trace_path].text = <<JUNK, NL, ObjTok(new_entry), NL>>

\* C6: a chat request whose model call fails ends with a 500 and leaves the
\* traces directory as it was; a trace is written only by a request that
\* produced a model reply, whose last message is the new assistant turn.
C6_FailureWritesNothing ==
    [][/\ (resp'.op = "chat" /\ resp'.status = 500) => traces' = traces
       /\ traces' # traces =>
            /\ resp'.op = "chat" /\ resp'.status = 200
            /\ resp'.messages[Len(resp'.messages)].role = "assistant"
            /\ new_entry'.response.messages = resp'.messages]_vars

C6_Witness ==
    /\ resp.op = "chat" /\ resp.status = 500
    /\ Len(log) = 1
    /\ \E f \in DOMAIN traces : Len(ArrayItems(traces[f].text)) = 2

\* C4: from an absent or empty label file, the label file holds exactly one
\* record per filename saved so far, carrying the feedback and verdict of the
\* latest save; a save of a filename already present replaces its record at
\* its position and leaves every other record and the order unchanged.
C4_LabelUpsert ==
    [][LET old == ReadRows(labels)
           new == ReadRows(labels')
       IN  /\ Len(new) = Cardinality(DOMAIN saved')
           /\ \A f \in DOMAIN saved' :
                \E i \in 1..Len(new) :
                    /\ new[i].ty = "dict"
                    /\ new[i].d.filename = f
                    /\ new[i].d.feedback = saved'[f].feedback
                    /\ new[i].d.verdict = saved'[f].verdict
           /\ (labels' # labels /\ resp'.record.filename \in DOMAIN saved) =>
                /\ Len(new) = Len(old)
                /\ \A i \in 1..Len(old) :
                     IF old[i].d.filename = resp'.record.filename
                     THEN new[i] = PyDict(resp'.record)
                     ELSE new[i] = old[i]]_vars

\* Two filenames are stored and the first one has been saved again later.
C4_Witness ==
    /\ resp.op = "save_label" /\ resp.status = 200
    /\ Len(ReadRows(labels)) = 2
    /\ ReadRows(labels)[1].d.filename = resp.record.filename
    /\ ReadRows(labels)[1].d.saved_at > ReadRows(labels)[2].d.saved_at
    /\ ReadRows(labels)[1].d.feedback = "bad"

\* The record a single-object trace file holds.
SingleRecord(fname) == json_loads(traces[fname].text).val.d

\* C5: when the response thread has an assistant message with a user message
\* somewhere before the last assistant message, load_trace returns the
\* content of the last assistant message and the content of the nearest user
\* message before it; without any assistant message the answer is empty.
C5_NearestUserTurn ==
    (resp.op = "get_trace" /\ resp.status = 200) =>
        LET r == SingleRecord(resp.payload.filename.fname).response.messages
            out == resp.payload
        IN  /\ \A i \in 1..Len(r) :
                 (/\ r[i].role = "assistant"
                  /\ \A k \in (i + 1)..Len(r) : r[k].role # "assistant")
                 => \A j \in 1..(i - 1) :
                      (/\ r[j].role = "user"
                       /\ \A k \in (j + 1)..(i - 1) : r[k].role # "user")
                      => /\ out.assistant_output = r[i].content
                         /\ out.initial_query = r[j].content
            /\ (\A i \in 1..Len(r) : r[i].role # "assistant")
                 => out.assistant_output = <<>>

\* C10: get_agent_response returns a conversation that starts with a system
\* message and ends with one appended assistant message: the input itself
\* when it starts with a system message, else the fixed prompt and the input.
C10_SystemFirstAssistantLast ==
    (resp.op = "chat" /\ resp.status = 200) =>
        LET input == new_entry.request.messages
            out == resp.messages
            n == Len(out)
        IN  /\ out[1].role = "system"
            /\ out[n].role = "assistant"
            /\ IF input # <<>> /\ input[1].role = "system"
               THEN SubSeq(out, 1, n - 1) = input
               ELSE /\ out[1] = Msg("system", SYSTEM_PROMPT)
                    /\ SubSeq(out, 2, n - 1) = input

\* A conversation that already starts with a system message got its reply.
C10_Witness ==
    /\ resp.op = "chat" /\ resp.status = 200
    /\ Len(new_entry.request.messages) = 2
    /\ new_entry.request.messages[1].role = "system"
    /\ Len(resp.messages) = 3
    /\ resp.messages[3] = Msg("assistant", <<"D", " ", "E">>)

\* C7: when two chat appends to the same existing file both read it before
\* either rewrites it, the final file holds what the last writer read plus
\* the last writer's record only: one record was added for two requests.
C7_LastWriterWins ==
    (/\ \A w \in Workers : workers[w].pc = "done"
     /\ \A w \in Workers :
          /\ workers[w].exists
          /\ workers[w].r.decoded
          /\ workers[w].seen = 0)
    => \A w \in Workers :
          LET items == ArrayItems(traces[workers[w].path].text) IN
          /\ IsArrayText(traces[workers[w].path].text)
          /\ Len(items) = Len(workers[w].r.data) + 1
          /\ items[Len(items)] = PyDict(log[2])
          /\ SubSeq(items, 1, Len(items) - 1) = workers[w].r.data

\* Both requests are answered, with different records, and the file holds
\* the second writer's record but not the first writer's.
C7_Witness ==
    /\ \A w \in Workers :
         /\ workers[w].pc = "done"
         /\ workers[w].exists
         /\ workers[w].r.decoded
         /\ workers[w].seen = 0
    /\ Len(log) = 2
    /\ log[1] # log[2]
    /\ ArrayItems(traces[-1].text) = <<PyDict(OldRecord(-2)), PyDict(log[2])>>

IsTraceRecord(d) == {"ts", "request", "response"} \subseteq DOMAIN d

RECURSIVE RecordsIn(_)
\* The trace records a file's text holds, in order, whatever its shape: the
\* ts, request and response of every object that has them.
RecordsIn(text) ==
    IF text = <<>> THEN <<>>
    ELSE (IF Head(text).k = "obj" /\ IsTraceRecord(Head(text).d)
          THEN <<[ts |-> Head(text).d.ts,
                  request |-> Head(text).d.request,
                  response |-> Head(text).d.response]>>
          ELSE <<>>)
         \o RecordsIn(Tail(text))

\* C8: no complete operation of the chat service, the annotation tool or the
\* labeling tool deletes a trace record: every file keeps every record it
\* stored, in place, with its ts, request and response.
C8_RecordsNeverDeleted ==
    [][\A f \in DOMAIN traces :
          /\ f \in DOMAIN traces'
          /\ IsPrefix(RecordsIn(traces[f].text), RecordsIn(traces'[f].text))]_vars

\* A chat append, an annotation and a label save have all happened, and the
\* annotated file still holds its two old records and the appended one.
C8_Witness ==
    /\ resp.op = "save_annotation" /\ resp.status = 303
    /\ Len(log) = 1
    /\ labels.exists
    /\ Len(RecordsIn(traces[resp.fname].text)) = 3
    /\ \E i \in 1..Len(traces[resp.fname].text) :
         /\ traces[resp.fname].text[i].k = "obj"
         /\ "open_coding" \in DOMAIN traces[resp.fname].text[i].d
         /\ traces[resp.fname].text[i].d.ts = 0

\* A file that holds trace records as a single object or a non-empty array.
IsWellFormedTraceText(text) ==
    /\ json_loads(text).ok
    /\ RecordsIn(text) # <<>>
    /\ Len(RecordsIn(text)) = Len(StoredRecords(text))

\* C9: when the directory holds a file that is not valid JSON, the listing
\* of either tool succeeds and still holds the entries of every well-formed
\* trace file.
C9_ListingSkipsBadFiles ==
    (\E f \in DOMAIN traces : ~json_loads(traces[f].text).ok) =>
        /\ resp.op = "list_traces" =>
             /\ resp.result.ok
             /\ \A g \in DOMAIN traces :
                  IsWellFormedTraceText(traces[g].text) =>
                      \E i \in 1..Len(resp.result.items) :
                          resp.result.items[i].fname = g
        /\ resp.op = "list_trace_files" =>
             /\ resp.result.ok
             /\ \A g \in DOMAIN traces :
                  IsWellFormedTraceText(traces[g].text) =>
                      \E i \in 1..Len(resp.result.ids) :
                          resp.result.ids[i].fname = g

\* The labeling tool's half of C9 holds: list_trace_files skips the file.
C9_LabelerSkipsBadFiles ==
    (/\ resp.op = "list_trace_files"
     /\ \E f \in DOMAIN traces : ~json_loads(traces[f].text).ok)
    => /\ resp.result.ok
       /\ \A g \in DOMAIN traces :
            IsWellFormedTraceText(traces[g].text) =>
                \E i \in 1..Len(resp.result.ids) : resp.result.ids[i].fname = g

\* C11: in the invalid-JSON fallback the new record's line is prefixed by a
\* newline if and only if the existing file does not already end in a
\* newline: the file becomes its old text, a newline only when the old text
\* does not end in one, the serialized record and a newline.
C11_NewlineOnlyWhenNeeded ==
    [][(AppendStep /\ IsNotJsonText(traces[trace_path'].text))
       => LET old == traces[trace_path'].text IN
          traces'[trace_path'].text
            = old
              \o (IF EndsWithNewline(old) THEN <<>> ELSE <<NL>>)
              \o <<ObjTok(new_entry'), NL>>]_vars

\* The fallback's own test holds: the newline is written exactly when the
\* stripped content, which never ends in a newline, does not end in one.
C11_NewlineAlwaysWritten ==
    [][(AppendStep /\ IsNotJsonText(traces[trace_path'].text))
       => traces'[trace_path'].text
            = traces[trace_path'].text \o <<NL, ObjTok(new_entry'), NL>>]_vars

\* A file that ended in a newline got a blank line before the new record.
C11_BlankLineWritten ==
    /\ resp.op = "chat" /\ resp.status = 200
    /\ Len(log) = 1
    /\ trace_path \in DOMAIN traces
    /\ traces[trace_path].text = <<JUNK, NL, NL, ObjTok(new_entry), NL>>

\* The query the fallback chain names for a record: the nearest user message
\* before the last assistant message of the response thread; when there is
\* none, the last user message of the response thread; when the response
\* thread has no user message, the last user message of the request thread;
\* else the empty string.
ChainQuery(d) ==
    LET r == d.response.messages
        q == d.request.messages
        last_assistant == LastWithRole(r, "assistant", Len(r))
        preceding == IF last_assistant = 0 THEN 0
                     ELSE LastWithRole(r, "user", last_assistant - 1)
        in_response == LastWithRole(r, "user", Len(r))
        in_request == LastWithRole(q, "user", Len(q))
    IN  IF preceding # 0 THEN r[preceding].content
        ELSE IF in_response # 0 THEN r[in_response].content
        ELSE IF in_request # 0 THEN q[in_request].content
        ELSE <<>>

\* C12: load_trace raises no error and its query follows the fallback chain:
\* the fallbacks are used only when no user message precedes the last
\* assistant message in the response thread, the request thread only when
\* the response thread has no user message, and the query is empty when no
\* user message exists.
C12_FallbackChain ==
    resp.op = "get_trace" =>
        /\ resp.status = 200
        /\ resp.payload.initial_query
             = ChainQuery(SingleRecord(resp.payload.filename.fname))

AllUsersNonEmpty(messages) ==
    \A i \in 1..Len(messages) :
        messages[i].role = "user" => messages[i].content # <<>>

\* The chain holds for records whose user messages all have content.
C12_ChainWhenUsersNonEmpty ==
    (/\ resp.op = "get_trace"
     /\ AllUsersNonEmpty(SingleRecord(0).response.messages)
     /\ AllUsersNonEmpty(SingleRecord(0).request.messages))
    => /\ resp.status = 200
       /\ resp.payload.initial_query = ChainQuery(SingleRecord(0))

\* The response thread's only user message follows the last assistant
\* message and is empty, and the query came from the request thread.
C12_RequestUsedDespiteResponseUser ==
    /\ resp.op = "get_trace" /\ resp.status = 200
    /\ SingleRecord(0).response.messages
         = <<Msg("assistant", <<"A">>), Msg("user", <<>>)>>
    /\ SingleRecord(0).request.messages = <<Msg("user", <<"Q">>)>>
    /\ resp.payload.initial_query = <<"Q">>

\* The keys save_annotation sets.
AnnotationKeys == {"open_coding", "axial_coding_code"}

\* Record `new` is record `old` with the notes stored under open_coding:
\* every other key keeps its value, no key is added besides the annotation
\* keys, and an axial code already stored is still stored.
AnnotatedOnly(old, new) ==
    /\ new.ty = "dict"
    /\ DOMAIN new.d \ AnnotationKeys = DOMAIN old.d \ AnnotationKeys
    /\ \A key \in DOMAIN old.d \ AnnotationKeys : new.d[key] = old.d[key]
    /\ "open_coding" \in DOMAIN new.d
    /\ new.d.open_coding = "n"
    /\ "axial_coding_code" \in DOMAIN old.d => "axial_coding_code" \in DOMAIN new.d

\* A step that is a save_annotation writing its file.
SaveAnnotationStep ==
    resp'.op = "save_annotation" /\ resp'.status = 303 /\ traces' # traces

\* C13: save_annotation on a file holding a non-empty array of records sets
\* open_coding (and axial_coding_code) on the last record only: the array
\* keeps its length and order, every other record and every other file are
\* unchanged, the last record keeps its ts, request and response, and the
\* file keeps its shape (an array stays an array, a single object stays a
\* single object).
C13_AnnotatesLastRecordOnly ==
    [][SaveAnnotationStep =>
          LET old == traces[resp'.fname].text
              new == traces'[resp'.fname].text
              items == ArrayItems(old)
          IN  /\ DOMAIN traces' = DOMAIN traces
              /\ \A g \in DOMAIN traces \ {resp'.fname} : traces'[g] = traces[g]
              /\ (/\ IsArrayText(old)
                  /\ items # <<>>
                  /\ \A i \in 1..Len(items) :
                       items[i].ty = "dict" /\ IsTraceRecord(items[i].d))
                 => /\ IsArrayText(new)
                    /\ Len(ArrayItems(new)) = Len(items)
                    /\ \A i \in 1..(Len(items) - 1) : ArrayItems(new)[i] = items[i]
                    /\ AnnotatedOnly(items[Len(items)],
                                     ArrayItems(new)[Len(items)])
              /\ (IsSingleObjectText(old) /\ IsTraceRecord(old[1].d))
                 => /\ IsSingleObjectText(new)
                    /\ AnnotatedOnly(PyDict(old[1].d), PyDict(new[1].d))]_vars

\* A three-record array was annotated: the last record, the one a chat
\* request appended, carries both annotation keys and the first two none.
C13_Witness ==
    /\ resp.op = "save_annotation" /\ resp.status = 303
    /\ Len(log) = 1
    /\ LET items == ArrayItems(traces[resp.fname].text) IN
         /\ Len(items) = 3
         /\ \A i \in 1..2 : DOMAIN items[i].d = {"ts", "request", "response"}
         /\ items[1].d.ts = -2 /\ items[2].d.ts = -1
         /\ items[3].d.ts = log[1].ts
         /\ items[3].d.request = log[1].request
         /\ items[3].d.response = log[1].response
         /\ items[3].d.open_coding = "n"
         /\ items[3].d.axial_coding_code = "c"

\* C14: the non-JSON shape of a trace file is absorbing.  A file that is not
\* valid JSON stays so; once a request has saved a trace, every later
\* request appends to the same file; an append to a target that is not
\* valid JSON takes the line-append fallback (the old text is kept and the
\* record's line is added at the end), leaves text that is not valid JSON,
\* and list_trace_files returns no identifier of that file.
C14_NonJsonAbsorbing ==
    [][/\ \A f \in DOMAIN traces :
            IsNotJsonText(traces[f].text)
            => f \in DOMAIN traces' /\ IsNotJsonText(traces'[f].text)
       /\ (log # <<>> /\ log' # log) => trace_path' = trace_path
       /\ (AppendStep /\ IsNotJsonText(traces[trace_path'].text))
          => LET old == traces[trace_path'].text
                 new == traces'[trace_path'].text
                 listed == list_trace_files(traces')
             IN  /\ IsPrefix(old, new)
                 /\ Len(new) >= Len(old) + 2
                 /\ SubSeq(new, Len(new) - 1, Len(new))
                      = <<ObjTok(new_entry'), NL>>
                 /\ IsNotJsonText(new)
                 /\ FileIds(trace_path', new) = [ok |-> TRUE, ids |-> <<>>]
                 /\ listed.ok
                 /\ \A i \in 1..Len(listed.ids) :
                      listed.ids[i].fname # trace_path']_vars

\* Three requests appended their records to a file left by an interrupted
\* rewrite: it holds all four records, and the labeling tool lists none.
C14_Witness ==
    /\ Len(log) = 3
    /\ trace_path = -1
    /\ DOMAIN traces = {-1}
    /\ IsPrefix(<<LB, ObjTok(OldRecord(-2)), COMMA>>, traces[-1].text)
    /\ RecordsIn(traces[-1].text) = <<OldRecord(-2)>> \o log
    /\ IsNotJsonText(traces[-1].text)
    /\ list_trace_files(traces) = [ok |-> TRUE, ids |-> <<>>]

\* The entries of one file that list_trace_files gives an identifier.
FileEntries(text) ==
    LET raw == json_loads(text) IN
    IF ~raw.ok THEN <<>>
    ELSE IF raw.val.ty = "list"
    THEN SelectSeq(raw.val.items,
                   LAMBDA v : v.ty = "dict" /\ "response" \in DOMAIN v.d)
    ELSE IF raw.val.ty = "dict" THEN <<raw.val>>
    ELSE <<>>

RECURSIVE ListedEntries(_, _)
\* The entries behind the identifiers of list_trace_files, in its order.
ListedEntries(dir, files) ==
    IF files = <<>> THEN <<>>
    ELSE FileEntries(dir[Head(files)].text) \o ListedEntries(dir, Tail(files))

\* C15: trace identifiers round-trip.  The identifiers list_trace_files
\* returns are pairwise distinct, and the trace served for the identifier at
\* a position is extracted from the entry listed at that position, also for
\* entries of one file that share a ts or have none.
C15_IdentifiersRoundTrip ==
    /\ (resp.op = "list_trace_files" /\ resp.status = 200)
       => \A i, j \in 1..Len(resp.result.ids) :
             i # j => resp.result.ids[i] # resp.result.ids[j]
    /\ resp.op = "get_trace" /\ resp.status # 404
       => /\ resp.status = 200
          /\ LET entry == ListedEntries(traces, SortSet(DOMAIN traces))
                             [resp.index + 1]
             IN  /\ resp.payload.initial_query
                      = ExtractTurns(entry.d).initial_query
                 /\ resp.payload.assistant_output
                      = ExtractTurns(entry.d).assistant_output

\* Every array entry of the directory has a ts that no other entry of its
\* file has.
TsIdentifiesEntries ==
    \A f \in DOMAIN traces :
        LET entries == FileEntries(traces[f].text) IN
        IsArrayText(traces[f].text)
        => \A i \in 1..Len(entries) :
              /\ "ts" \in DOMAIN entries[i].d
              /\ \A j \in 1..Len(entries) :
                   i # j => entries[j].d.ts # entries[i].d.ts

\* The round trip holds in the directories where ts identifies the entries.
C15_RoundTripWhenTsDistinct ==
    TsIdentifiesEntries => C15_IdentifiersRoundTrip

\* Two requests handled at the same clock value stored entries that share
\* their ts; the trace served for the second identifier is the first entry.
C15_SecondEntryUnreachable ==
    /\ resp.op = "get_trace" /\ resp.status = 200
    /\ resp.index = 1 /\ resp.total = 2
    /\ Len(log) = 2
    /\ log[1].ts = log[2].ts
    /\ ArrayItems(traces[trace_path].text) = <<PyDict(log[1]), PyDict(log[2])>>
    /\ resp.payload.initial_query = <<"A">>
    /\ ExtractTurns(log[2]).initial_query = <<"B">>

====
